---- MODULE Spec2Model ----
(***************************************************************************)
(* Model of final.py: the Streamlit script that loads the fund/manager map, *)
(* the monthly holdings, the market-cap and liquidity sheets, consolidates  *)
(* them into df_final and renders one of four pages per script run.         *)
(*                                                                          *)
(* Tables are sequences of records (pandas DataFrames keep row order and    *)
(* duplicates).  Floats are IEEE values: an exact rational, NaN, +inf or    *)
(* -inf; pandas' null of a float column is NaN.  Dates are integers         *)
(* yyyymmdd, month keys integers yyyymm.                                    *)
(***************************************************************************)
EXTENDS Integers, Sequences, FiniteSets, TLC

(***************************************************************************)
(* Bounds of the model.                                                     *)
(***************************************************************************)
\* Largest position market value (VL_MERC_POS_FINAL) a holdings file carries.
MaxValor == 3
\* Largest cell value of a reference sheet (market cap is in thousands).
MaxCelula == 2
\* page reruns of one session
MaxReruns == 2

(***************************************************************************)
(* IEEE floats: [k, n, d] with k in {"fin","nan","inf","ninf"}; a finite    *)
(* value is the rational n/d in lowest terms with d > 0.                    *)
(***************************************************************************)
Abs(x) == IF x < 0 THEN -x ELSE x

RECURSIVE GCD(_, _)
GCD(a, b) == IF b = 0 THEN a ELSE GCD(b, a % b)

NaN  == [k |-> "nan",  n |-> 0, d |-> 1]
PInf == [k |-> "inf",  n |-> 0, d |-> 1]
NInf == [k |-> "ninf", n |-> 0, d |-> 1]

Fin(n, d) ==
    LET g == GCD(Abs(n), Abs(d))
        s == IF d < 0 THEN -1 ELSE 1
    IN  [k |-> "fin", n |-> (s * n) \div g, d |-> (s * d) \div g]

F(n) == Fin(n, 1)

IsNaN(x) == x.k = "nan"
IsInf(x) == x.k \in {"inf", "ninf"}
IsFin(x) == x.k = "fin"

\* -1, 0 or 1 for a value that is not NaN
Sgn(x) == CASE x.k = "inf"  -> 1
            [] x.k = "ninf" -> -1
            [] OTHER        -> IF x.n > 0 THEN 1 ELSE IF x.n < 0 THEN -1 ELSE 0

SignedInf(s) == IF s >= 0 THEN PInf ELSE NInf

\* x / y (numpy float64 division: x/0 is +-inf, 0/0 is NaN)
FDiv(x, y) ==
    CASE IsNaN(x) \/ IsNaN(y) -> NaN
      [] IsInf(x) /\ IsInf(y) -> NaN
      [] IsInf(x)             -> SignedInf(Sgn(x) * (IF Sgn(y) < 0 THEN -1 ELSE 1))
      [] IsInf(y)             -> F(0)
      [] y.n = 0              -> IF x.n = 0 THEN NaN ELSE SignedInf(Sgn(x))
      [] OTHER                -> Fin(x.n * y.d, x.d * y.n)

\* x * y
FMul(x, y) ==
    CASE IsNaN(x) \/ IsNaN(y) -> NaN
      [] IsInf(x) \/ IsInf(y) -> IF Sgn(x) = 0 \/ Sgn(y) = 0 THEN NaN
                                 ELSE SignedInf(Sgn(x) * Sgn(y))
      [] OTHER                -> Fin(x.n * y.n, x.d * y.d)

\* x + y
FAdd(x, y) ==
    CASE IsNaN(x) \/ IsNaN(y) -> NaN
      [] IsInf(x) /\ IsInf(y) -> IF x.k = y.k THEN x ELSE NaN
      [] IsInf(x)             -> x
      [] IsInf(y)             -> y
      [] OTHER                -> Fin(x.n * y.d + y.n * x.d, x.d * y.d)

FNeg(x) == CASE x.k = "inf" -> NInf [] x.k = "ninf" -> PInf
             [] x.k = "nan" -> NaN  [] OTHER -> Fin(-x.n, x.d)

\* x - y
FSub(x, y) == FAdd(x, FNeg(y))

\* comparisons: any comparison with NaN is False
FLt(x, y) ==
    /\ ~IsNaN(x) /\ ~IsNaN(y)
    /\ CASE x.k = "ninf" -> y.k # "ninf"
         [] x.k = "inf"  -> FALSE
         [] y.k = "inf"  -> TRUE
         [] y.k = "ninf" -> FALSE
         [] OTHER        -> x.n * y.d < y.n * x.d
FGt(x, y) == FLt(y, x)
FEq(x, y) == ~IsNaN(x) /\ ~IsNaN(y) /\ x = y
FGe(x, y) == FGt(x, y) \/ FEq(x, y)

(***************************************************************************)
(* Generic table helpers (pandas operations on sequences of rows).          *)
(***************************************************************************)
NULL == "<null>"

RECURSIVE Concat(_)
Concat(ss) == IF ss = <<>> THEN <<>> ELSE Head(ss) \o Concat(Tail(ss))

\* [f(s[1]), ..., f(s[n])]
MapSeq(s, f(_)) == [i \in 1..Len(s) |-> f(s[i])]

\* the rows of s that satisfy p, in order
Filter(s, p(_)) == SelectSeq(s, p)

Range(s) == {s[i] : i \in 1..Len(s)}

\* DataFrame.drop_duplicates(): the first occurrence of every row is kept
RECURSIVE DropDuplicatesFrom(_, _)
DropDuplicatesFrom(s, seen) ==
    IF s = <<>> THEN <<>>
    ELSE IF Head(s) \in seen THEN DropDuplicatesFrom(Tail(s), seen)
    ELSE <<Head(s)>> \o DropDuplicatesFrom(Tail(s), seen \cup {Head(s)})
DropDuplicates(s) == DropDuplicatesFrom(s, {})

\* Series.sum(): NaN is skipped, the sum of nothing is 0
RECURSIVE SumSkipNa(_)
SumSkipNa(xs) ==
    IF xs = <<>> THEN F(0)
    ELSE IF IsNaN(Head(xs)) THEN SumSkipNa(Tail(xs))
    ELSE FAdd(Head(xs), SumSkipNa(Tail(xs)))

\* pd.to_numeric(errors='coerce') of one raw cell
ToNumeric(c) == IF c.t = "num" THEN F(c.v) ELSE NaN

\* Series.fillna(0) of one value
FillNa0(x) == IF IsNaN(x) THEN F(0) ELSE x

\* Series.replace([np.inf, -np.inf], 0) of one value
ReplaceInf0(x) == IF IsInf(x) THEN F(0) ELSE x

\* strftime('%Y%m') of a date yyyymmdd
MesAnoDe(dt) == dt \div 100

\* lexicographic order of the strings the model uses (sorted(), groupby keys)
Alfabeto == <<"G1", "G2", "PETR4", "VALE3", "XPTO">>
Ordem(s) == CHOOSE i \in 1..Len(Alfabeto) : Alfabeto[i] = s

\* sorted(S) of a set of integers
RECURSIVE SortedInts(_)
SortedInts(S) ==
    IF S = {} THEN <<>>
    ELSE LET m == CHOOSE x \in S : \A y \in S : x <= y
         IN  <<m>> \o SortedInts(S \ {m})

(***************************************************************************)
(* PARTE 1: constants of the script.                                        *)
(***************************************************************************)
MESES_PARA_ANALISE == <<202410, 202411, 202412>>

\* TP_APLIC values kept by the instrument-type filter (written in ASCII)
tipos_aplic_interesse_acoes ==
    {"Acoes", "Certificado ou recibo de deposito de valores mobiliarios",
     "Acoes e outros TVM cedidos em emprestimo"}

\* TP_ATIVO values kept by the asset-class filter
tipos_ativo_acao ==
    {"Acao ordinaria", "Acao preferencial", "Certificado de deposito de acoes",
     "Recibo de subscricao", "UNIT"}

(***************************************************************************)
(* PARTE 2: the loaders.  A file is [exists, legivel, ...]: it is there, and *)
(* its content can be read.  A loader's result is [stop, none, exc, df]:    *)
(* stop when the run ended inside it, by st.stop() or, with exc, by an      *)
(* exception nothing catches; none when it returned None.                   *)
(***************************************************************************)
Loaded(df) == [stop |-> FALSE, none |-> FALSE, exc |-> FALSE, df |-> df]
ReturnedNone == [stop |-> FALSE, none |-> TRUE, exc |-> FALSE, df |-> <<>>]
Stopped == [stop |-> TRUE, none |-> FALSE, exc |-> FALSE, df |-> <<>>]
Raised == [stop |-> TRUE, none |-> FALSE, exc |-> TRUE, df |-> <<>>]

\* df_mapa[['Gestora', 'Fundo']].dropna().drop_duplicates()
carregar_mapeamento_gestora_fundo(arq) ==
    IF ~arq.exists THEN ReturnedNone
    ELSE IF ~arq.legivel THEN ReturnedNone
    ELSE Loaded(DropDuplicates(
            Filter(arq.rows, LAMBDA r : r.Gestora # NULL /\ r.Fundo # NULL)))

\* the months are read in order; the first missing file stops the script,
\* and only FileNotFoundError is caught: any other error of read_parquet
\* leaves the loader as an exception
RECURSIVE LerMeses(_, _)
LerMeses(pasta, meses) ==
    IF meses = <<>> THEN Loaded(<<>>)
    ELSE IF ~pasta[Head(meses)].exists THEN Stopped
    ELSE IF ~pasta[Head(meses)].legivel THEN Raised
    ELSE LET resto == LerMeses(pasta, Tail(meses))
         IN  IF resto.stop THEN resto
             ELSE Loaded(pasta[Head(meses)].rows \o resto.df)

carregar_dados_historicos(pasta, meses) ==
    IF meses = <<>> THEN ReturnedNone ELSE LerMeses(pasta, meses)

\* df_wide.melt(id_vars=[ticker column]): one row per (column, sheet row),
\* column by column
Melt(planilha) ==
    Concat([j \in 1..Len(planilha.cols) |->
              [i \in 1..Len(planilha.rows) |->
                 [Ticker |-> planilha.rows[i].Ticker,
                  Data   |-> planilha.cols[j],
                  valor  |-> planilha.rows[i].cells[j]]]])

\* pd.to_datetime(label, dayfirst=True, errors='coerce'): 0 stands for NaT
ToDatetime(rotulo) ==
    IF rotulo.ok THEN rotulo.ano * 10000 + rotulo.mes * 100 + rotulo.dia ELSE 0

carregar_e_processar_planilha_wide(arq, nome_planilha) ==
    IF ~arq.exists THEN Stopped
    ELSE IF ~arq.legivel THEN Stopped
    ELSE IF ~arq[nome_planilha].exists THEN Stopped
    ELSE LET df_long == MapSeq(Melt(arq[nome_planilha]),
                               LAMBDA r : [Ticker |-> r.Ticker,
                                           Data   |-> ToDatetime(r.Data),
                                           valor  |-> ToNumeric(r.valor)])
             limpo   == Filter(df_long, LAMBDA r : r.Data # 0 /\ ~IsNaN(r.valor))
         IN  Loaded(MapSeq(limpo, LAMBDA r : [Ticker |-> r.Ticker,
                                              MesAno |-> MesAnoDe(r.Data),
                                              valor  |-> r.valor]))

\* df_market_caps['Market_Cap_Cia_R'] * 1000
EmMilhares(df) == MapSeq(df, LAMBDA r : [r EXCEPT !.valor = FMul(r.valor, F(1000))])

(***************************************************************************)
(* PARTE 3: processing and consolidation.                                   *)
(***************************************************************************)
\* pd.merge(dados_brutos, mapa, left_on='DENOM_SOCIAL', right_on='Fundo',
\* how='inner'): one row per (holding, map row of its fund)
MergeGestora(brutos, mapa) ==
    Concat(MapSeq(brutos, LAMBDA h :
        MapSeq(Filter(mapa, LAMBDA m : m.Fundo = h.DENOM_SOCIAL),
               LAMBDA m : [DT_COMPTC    |-> h.DT_COMPTC,
                           DENOM_SOCIAL |-> h.DENOM_SOCIAL,
                           TP_APLIC     |-> h.TP_APLIC,
                           TP_ATIVO     |-> h.TP_ATIVO,
                           CD_ATIVO     |-> h.CD_ATIVO,
                           VL_MERC_POS_FINAL |-> h.VL_MERC_POS_FINAL,
                           Gestora      |-> m.Gestora,
                           Fundo        |-> m.Fundo])))

\* dados_completos['VL_MERC_POS_FINAL'] = pd.to_numeric(..., errors='coerce')
VlNumerico(df) ==
    MapSeq(df, LAMBDA r : [r EXCEPT !.VL_MERC_POS_FINAL = ToNumeric(r.VL_MERC_POS_FINAL)])

\* the boolean mask of the type filter
TipoDeAcao(r) ==
    /\ r.TP_APLIC \in tipos_aplic_interesse_acoes
    /\ r.TP_ATIVO \in tipos_ativo_acao

\* the type filter followed by dropna(subset=['CD_ATIVO'])
FiltrarAcoes(completos) ==
    Filter(Filter(completos, TipoDeAcao), LAMBDA r : r.CD_ATIVO # NULL)

\* mutant: the valid-ticker filter is skipped
SemFiltroDeTickers(acoes, validos) == acoes

\* dados_acoes[dados_acoes['CD_ATIVO'].isin(tickers_validos)]
FiltrarTickers(acoes, validos) == Filter(acoes, LAMBDA r : r.CD_ATIVO \in validos)

ChaveDe(r) == <<r.DT_COMPTC, r.Gestora, r.CD_ATIVO>>

\* the order groupby(sort=True) gives its keys
ChaveMenor(a, b) ==
    \/ a[1] < b[1]
    \/ a[1] = b[1] /\ Ordem(a[2]) < Ordem(b[2])
    \/ a[1] = b[1] /\ a[2] = b[2] /\ Ordem(a[3]) < Ordem(b[3])

\* mutant: the aggregation keeps the first value of the group
AgregarPrimeiro(linhas) == FillNa0(linhas[1].VL_MERC_POS_FINAL)

\* the aggregation of one group: ('VL_MERC_POS_FINAL', 'sum')
AgregarGrupo(linhas) == SumSkipNa(MapSeq(linhas, LAMBDA r : r.VL_MERC_POS_FINAL))

\* groupby(['DT_COMPTC', 'Gestora', 'CD_ATIVO'], as_index=False).agg(sum),
\* then the MesAno column
Consolidar(acoes) ==
    LET chaves == SortSeq(DropDuplicates(MapSeq(acoes, ChaveDe)), ChaveMenor)
    IN  MapSeq(chaves, LAMBDA c :
            [DT_COMPTC |-> c[1], Gestora |-> c[2], CD_ATIVO |-> c[3],
             Valor_Consolidado_R |->
                 AgregarGrupo(Filter(acoes, LAMBDA r : ChaveDe(r) = c)),
             MesAno |-> MesAnoDe(c[1])])

\* the values a left merge on (ticker, MesAno) attaches to one row: every
\* matching row of the reference table, or one NaN when there is none
ValoresDeReferencia(ref, ticker, mesano) ==
    LET achados == Filter(ref, LAMBDA m : m.Ticker = ticker /\ m.MesAno = mesano)
    IN  IF achados = <<>> THEN <<NaN>> ELSE MapSeq(achados, LAMBDA m : m.valor)

\* the two left merges, the rename CD_ATIVO -> Ativo and the drop of Ticker
MergeReferencias(posicao, caps, liquidez) ==
    LET comCap == Concat(MapSeq(posicao, LAMBDA r :
                     MapSeq(ValoresDeReferencia(caps, r.CD_ATIVO, r.MesAno),
                            LAMBDA v : [pos |-> r, cap |-> v])))
    IN  Concat(MapSeq(comCap, LAMBDA rc :
            MapSeq(ValoresDeReferencia(liquidez, rc.pos.CD_ATIVO, rc.pos.MesAno),
                   LAMBDA v : [DT_COMPTC |-> rc.pos.DT_COMPTC,
                               Gestora   |-> rc.pos.Gestora,
                               Ativo     |-> rc.pos.CD_ATIVO,
                               Valor_Consolidado_R |-> rc.pos.Valor_Consolidado_R,
                               MesAno    |-> rc.pos.MesAno,
                               Market_Cap_Cia_R |-> rc.cap,
                               Volume_Medio_Financeiro_60d |-> v])))

\* (Valor_Consolidado_R / Market_Cap_Cia_R) * 100
PercCia(valor, cap) == FMul(FDiv(valor, cap), F(100))

\* mutant: the manager total grouped by manager alone
PLTotalSemData(df, gestora, dt) ==
    SumSkipNa(MapSeq(Filter(df, LAMBDA r : r.Gestora = gestora),
                     LAMBDA r : r.Valor_Consolidado_R))

\* groupby(['Gestora', 'DT_COMPTC'])['Valor_Consolidado_R'].transform('sum')
PLTotalGestoraMes(df, gestora, dt) ==
    SumSkipNa(MapSeq(Filter(df, LAMBDA r : r.Gestora = gestora /\ r.DT_COMPTC = dt),
                     LAMBDA r : r.Valor_Consolidado_R))

\* the two derived columns of df_final
CalculosFinais(df) ==
    MapSeq(df, LAMBDA r :
        [DT_COMPTC |-> r.DT_COMPTC, Gestora |-> r.Gestora, Ativo |-> r.Ativo,
         Valor_Consolidado_R |-> r.Valor_Consolidado_R, MesAno |-> r.MesAno,
         Market_Cap_Cia_R |-> r.Market_Cap_Cia_R,
         Volume_Medio_Financeiro_60d |-> r.Volume_Medio_Financeiro_60d,
         Perc_Cia |-> PercCia(r.Valor_Consolidado_R, r.Market_Cap_Cia_R),
         PL_Total_Gestora_Mes |-> PLTotalGestoraMes(df, r.Gestora, r.DT_COMPTC)])

(***************************************************************************)
(* Display formatting.  A shown cell is [txt, val]: txt "num" with the      *)
(* rounded value, or the literal text.                                      *)
(***************************************************************************)
Texto(t) == [txt |-> t, val |-> F(0)]

RECURSIVE Pot10(_)
Pot10(k) == IF k = 0 THEN 1 ELSE 10 * Pot10(k - 1)

\* round-half-even of a finite x to k decimals, as the format spec .kf does
Arredondar(x, k) ==
    LET num  == x.n * Pot10(k)
        piso == num \div x.d
        rest == num % x.d
        cima == \/ 2 * rest > x.d
                \/ 2 * rest = x.d /\ piso % 2 = 1
    IN  Fin(IF cima THEN piso + 1 ELSE piso, Pot10(k))

\* f"{x:.kf}" (with or without the % sign): "nan" and "inf" are printed as such
Formatar(x, k) ==
    CASE IsNaN(x) -> Texto("nan")
      [] IsInf(x) -> Texto("inf")
      [] OTHER    -> [txt |-> "num", val |-> Arredondar(x, k)]

\* lambda x: f"{x:.kf}" if pd.notna(x) else "N/A"
FormatarOuNA(x, k) == IF IsNaN(x) THEN Texto("N/A") ELSE Formatar(x, k)

\* sorted(df[col].unique()) of a string column
OrdenarTextos(S) ==
    SortSeq(CHOOSE q \in [1..Cardinality(S) -> S] : Range(q) = S,
            LAMBDA a, b : Ordem(a) < Ordem(b))

DatasDe(df) == {df[i].DT_COMPTC : i \in 1..Len(df)}
GestorasDe(df) == {df[i].Gestora : i \in 1..Len(df)}
AtivosDe(df) == {df[i].Ativo : i \in 1..Len(df)}
MaxDe(S) == CHOOSE x \in S : \A y \in S : y <= x
MinDe(S) == CHOOSE x \in S : \A y \in S : x <= y

\* Valor_Consolidado_R / (fracao * Volume_Medio_Financeiro_60d) / 1000
DiasZerar(valor, liquidez, fracao) ==
    FDiv(FDiv(valor, FMul(fracao, liquidez)), F(1000))

\* DataFrame.mean() of a group as pivot_table computes it: NaN is skipped
MediaSkipNa(xs) ==
    LET validos == Filter(xs, LAMBDA x : ~IsNaN(x))
    IN  IF validos = <<>> THEN NaN ELSE FDiv(SumSkipNa(validos), F(Len(validos)))

\* pivot_table(index="Ativo", columns="DT_COMPTC", values=col).fillna(0),
\* melted back: linhas are [Ativo, DT_COMPTC, v].  Rows and columns whose
\* cells are all NaN are dropped before the fill.
PivotMelt(linhas) ==
    LET media(a, d) == MediaSkipNa(MapSeq(
                          Filter(linhas, LAMBDA r : r.Ativo = a /\ r.DT_COMPTC = d),
                          LAMBDA r : r.v))
        ativos == {a \in AtivosDe(linhas) :
                      \E d \in DatasDe(linhas) : ~IsNaN(media(a, d))}
        datas  == {d \in DatasDe(linhas) :
                      \E a \in ativos : ~IsNaN(media(a, d))}
    IN  Concat(MapSeq(SortedInts(datas), LAMBDA d :
            MapSeq(OrdenarTextos(ativos), LAMBDA a :
                [Ativo |-> a, Data |-> d, v |-> FillNa0(media(a, d))])))

(***************************************************************************)
(* PARTE 4: page "Analise por gestora".                                     *)
(***************************************************************************)
\* dados_mes["Perc_PL"]: Valor / pl_gestora * 100 if pl_gestora else 0
PercPLMes(valor, pl_gestora) ==
    IF pl_gestora # F(0) THEN FMul(FDiv(valor, pl_gestora), F(100)) ELSE F(0)

\* dados_evo["Perc_PL"]: Valor / PL_Total_Gestora_Mes * 100
PercPLEvo(valor, pl_total) == FMul(FDiv(valor, pl_total), F(100))

\* liquidez_ok: notna and > 0
LiquidezOk(liq) == ~IsNaN(liq) /\ FGt(liq, F(0))

PaginaGestoraTela(df, gestora_sel) ==
    LET dados_gestora == Filter(df, LAMBDA r : r.Gestora = gestora_sel)
        mes_sel    == MaxDe(DatasDe(dados_gestora))
        dados_mes  == Filter(dados_gestora, LAMBDA r : r.DT_COMPTC = mes_sel)
        pl_gestora == SumSkipNa(MapSeq(dados_mes, LAMBDA r : r.Valor_Consolidado_R))
        linha(r) ==
            LET ok == LiquidezOk(r.Volume_Medio_Financeiro_60d)
            IN [Ativo   |-> r.Ativo,
                Perc_PL |-> PercPLMes(r.Valor_Consolidado_R, pl_gestora),
                PercPL  |-> Formatar(PercPLMes(r.Valor_Consolidado_R, pl_gestora), 2),
                PercCia |-> FormatarOuNA(r.Perc_Cia, 2),
                Dias20  |-> FormatarOuNA(
                               IF ok THEN DiasZerar(r.Valor_Consolidado_R,
                                          r.Volume_Medio_Financeiro_60d, Fin(1, 5))
                               ELSE NaN, 1),
                Dias30  |-> FormatarOuNA(
                               IF ok THEN DiasZerar(r.Valor_Consolidado_R,
                                          r.Volume_Medio_Financeiro_60d, Fin(3, 10))
                               ELSE NaN, 1)]
        tabela == SortSeq(MapSeq(dados_mes, linha),
                          LAMBDA a, b : FGt(a.Perc_PL, b.Perc_PL))
        dados_evo == MapSeq(dados_gestora, LAMBDA r :
                        [Ativo |-> r.Ativo, DT_COMPTC |-> r.DT_COMPTC,
                         v |-> PercPLEvo(r.Valor_Consolidado_R, r.PL_Total_Gestora_Mes),
                         Perc_Cia |-> r.Perc_Cia])
        evo_cia == MapSeq(Filter(dados_evo, LAMBDA r : ~IsNaN(r.Perc_Cia)),
                          LAMBDA r : [Ativo |-> r.Ativo, DT_COMPTC |-> r.DT_COMPTC,
                                      v |-> r.Perc_Cia])
        barras(t) == MapSeq(t, LAMBDA c : [Ativo |-> c.Ativo, Data |-> c.Data,
                                           texto |-> Formatar(c.v, 2)])
    IN  [pagina |-> "Analise por gestora",
         selecao |-> gestora_sel,
         pl_gestora |-> pl_gestora,
         tabela |-> tabela,
         dados_evo |-> dados_evo,
         df_pl  |-> barras(PivotMelt(dados_evo)),
         df_cia |-> barras(PivotMelt(evo_cia))]

(***************************************************************************)
(* PARTE 5: page "Analise por ativo".                                       *)
(***************************************************************************)
DfAtivo(df, ativo_sel) ==
    Filter(df, LAMBDA r : r.Ativo = ativo_sel /\ r.DT_COMPTC = MaxDe(DatasDe(df)))

PaginaAtivoTela(df, ativo_sel) ==
    LET df_ativo == DfAtivo(df, ativo_sel)
        linha(r) ==
            [Gestora |-> r.Gestora,
             Valor   |-> r.Valor_Consolidado_R,
             PercCia |-> FormatarOuNA(r.Perc_Cia, 2),
             Dias20  |-> FormatarOuNA(DiasZerar(r.Valor_Consolidado_R,
                            r.Volume_Medio_Financeiro_60d, Fin(1, 5)), 1),
             Dias30  |-> FormatarOuNA(DiasZerar(r.Valor_Consolidado_R,
                            r.Volume_Medio_Financeiro_60d, Fin(3, 10)), 1)]
        total_perc == SumSkipNa(MapSeq(df_ativo, LAMBDA r : r.Perc_Cia))
        fatias == MapSeq(df_ativo, LAMBDA r : [Gestora |-> r.Gestora, v |-> r.Perc_Cia])
    IN  [pagina |-> "Analise por ativo",
         selecao |-> ativo_sel,
         df_display |-> SortSeq(MapSeq(df_ativo, linha),
                                LAMBDA a, b : FGt(a.Valor, b.Valor)),
         df_donut |-> IF FLt(total_perc, F(100))
                      THEN Append(fatias, [Gestora |-> "Outros Acionistas",
                                           v |-> FSub(F(100), total_perc)])
                      ELSE <<>>]

(***************************************************************************)
(* PARTE 6: page "Movimentacoes relevantes".                                *)
(***************************************************************************)
ParDe(r) == <<r.Gestora, r.Ativo>>

ParMenor(a, b) ==
    \/ Ordem(a[1]) < Ordem(b[1])
    \/ a[1] = b[1] /\ Ordem(a[2]) < Ordem(b[2])

\* df_final[df_final["DT_COMPTC"] == data][base_cols]
Recorte(df, data) == Filter(df, LAMBDA r : r.DT_COMPTC = data)

\* one row of the outer merge; a side that is absent is all NaN
LinhaMov(par, ini, fim) ==
    [Gestora |-> par[1], Ativo |-> par[2],
     Perc_Cia_ini |-> ini.Perc_Cia,
     Valor_Consolidado_R_ini |-> ini.Valor_Consolidado_R,
     PL_Total_Gestora_Mes_ini |-> ini.PL_Total_Gestora_Mes,
     Perc_Cia_fim |-> fim.Perc_Cia,
     Valor_Consolidado_R_fim |-> fim.Valor_Consolidado_R,
     PL_Total_Gestora_Mes_fim |-> fim.PL_Total_Gestora_Mes]

Ausente == [Perc_Cia |-> NaN, Valor_Consolidado_R |-> NaN, PL_Total_Gestora_Mes |-> NaN]

\* df_ini.merge(df_fim, on=["Gestora", "Ativo"], how="outer"): per key, every
\* pairing of its left rows with its right rows
MergeOuter(df_ini, df_fim) ==
    LET pares == SortSeq(DropDuplicates(MapSeq(df_ini \o df_fim, ParDe)), ParMenor)
        lado(df, par) ==
            LET l == Filter(df, LAMBDA r : ParDe(r) = par)
            IN  IF l = <<>> THEN <<Ausente>> ELSE l
    IN  Concat(MapSeq(pares, LAMBDA par :
            Concat(MapSeq(lado(df_ini, par), LAMBDA i :
                MapSeq(lado(df_fim, par), LAMBDA f : LinhaMov(par, i, f))))))

\* .fillna(0) of the merged table
FillNaMov(m) ==
    MapSeq(m, LAMBDA r :
        [Gestora |-> r.Gestora, Ativo |-> r.Ativo,
         Perc_Cia_ini |-> FillNa0(r.Perc_Cia_ini),
         Valor_Consolidado_R_ini |-> FillNa0(r.Valor_Consolidado_R_ini),
         PL_Total_Gestora_Mes_ini |-> FillNa0(r.PL_Total_Gestora_Mes_ini),
         Perc_Cia_fim |-> FillNa0(r.Perc_Cia_fim),
         Valor_Consolidado_R_fim |-> FillNa0(r.Valor_Consolidado_R_fim),
         PL_Total_Gestora_Mes_fim |-> FillNa0(r.PL_Total_Gestora_Mes_fim)])

Mov(df) ==
    LET datas_disp == SortedInts(DatasDe(df))
        data_ini   == datas_disp[1]
        data_fim   == datas_disp[Len(datas_disp)]
    IN  FillNaMov(MergeOuter(Recorte(df, data_ini), Recorte(df, data_fim)))

\* (Valor_fim / PL_Total_fim).replace([inf, -inf], 0) * 100
PercPLFinal(r) ==
    FMul(ReplaceInf0(FDiv(r.Valor_Consolidado_R_fim, r.PL_Total_Gestora_Mes_fim)), F(100))

\* mutant: the minimum-final threshold is an inclusive bound
EhNovaInclusiva(r, part_final_min) ==
    /\ FEq(r.Perc_Cia_ini, F(0))
    /\ FGe(r.Perc_Cia_fim, part_final_min)

\* the mask of "Posicoes Novas"
EhNova(r, part_final_min) ==
    /\ FEq(r.Perc_Cia_ini, F(0))
    /\ FGt(r.Perc_Cia_fim, part_final_min)

Novas(m, part_final_min) ==
    MapSeq(Filter(m, LAMBDA r : EhNova(r, part_final_min)), LAMBDA r :
        [Gestora |-> r.Gestora, Ativo |-> r.Ativo,
         Perc_Cia_ini |-> r.Perc_Cia_ini, Perc_Cia_fim |-> r.Perc_Cia_fim,
         PartFinal |-> Formatar(r.Perc_Cia_fim, 3),
         PercPLFinal |-> Formatar(PercPLFinal(r), 2)])

\* ((fim - ini) / ini) * 100
VarRelAumento(r) ==
    FMul(FDiv(FSub(r.Perc_Cia_fim, r.Perc_Cia_ini), r.Perc_Cia_ini), F(100))

\* the first mask of "Aumentos de Posicao"
Subiu(r) == FGt(r.Perc_Cia_ini, F(0)) /\ FGt(r.Perc_Cia_fim, r.Perc_Cia_ini)

\* mutant: the minimum-increase threshold is an exclusive bound
AumentoRelevanteExclusivo(r, aumento_rel_min, part_final_min) ==
    /\ FGt(VarRelAumento(r), F(aumento_rel_min))
    /\ FGt(r.Perc_Cia_fim, part_final_min)

\* the second mask of "Aumentos de Posicao"
AumentoRelevante(r, aumento_rel_min, part_final_min) ==
    /\ FGe(VarRelAumento(r), F(aumento_rel_min))
    /\ FGt(r.Perc_Cia_fim, part_final_min)

Aumentos(m, aumento_rel_min, part_final_min) ==
    MapSeq(Filter(Filter(m, Subiu),
                  LAMBDA r : AumentoRelevante(r, aumento_rel_min, part_final_min)),
           LAMBDA r :
        [Gestora |-> r.Gestora, Ativo |-> r.Ativo,
         Perc_Cia_ini |-> r.Perc_Cia_ini, Perc_Cia_fim |-> r.Perc_Cia_fim,
         PartIni |-> Formatar(r.Perc_Cia_ini, 3),
         PartFin |-> Formatar(r.Perc_Cia_fim, 3),
         Var_Rel |-> VarRelAumento(r),
         VarRel  |-> Formatar(VarRelAumento(r), 0),
         PercPLFinal |-> Formatar(PercPLFinal(r), 2)])

\* ((ini - fim) / ini) * 100
VarRelReducao(r) ==
    FMul(FDiv(FSub(r.Perc_Cia_ini, r.Perc_Cia_fim), r.Perc_Cia_ini), F(100))

\* the first mask of "Reducoes de Posicao"
Caiu(r) == FGt(r.Perc_Cia_ini, F(0)) /\ FLt(r.Perc_Cia_fim, r.Perc_Cia_ini)

\* the second mask of "Reducoes de Posicao"
ReducaoRelevante(r, reducao_rel_min) == FGe(VarRelReducao(r), F(reducao_rel_min))

\* "Zerou" if Perc_Cia_fim == 0 else the formatted percentage
PercPLFinalOuZerou(r) ==
    IF FEq(r.Perc_Cia_fim, F(0)) THEN Texto("Zerou") ELSE Formatar(PercPLFinal(r), 2)

Reducoes(m, reducao_rel_min) ==
    MapSeq(Filter(Filter(m, Caiu), LAMBDA r : ReducaoRelevante(r, reducao_rel_min)),
           LAMBDA r :
        [Gestora |-> r.Gestora, Ativo |-> r.Ativo,
         Perc_Cia_ini |-> r.Perc_Cia_ini, Perc_Cia_fim |-> r.Perc_Cia_fim,
         PartIni |-> Formatar(r.Perc_Cia_ini, 3),
         PartFin |-> Formatar(r.Perc_Cia_fim, 3),
         Var_Rel |-> VarRelReducao(r),
         VarRel  |-> Formatar(VarRelReducao(r), 0),
         PercPLFinal |-> PercPLFinalOuZerou(r)])

PaginaMovimentacoesTela(df, f) ==
    [pagina |-> "Movimentacoes relevantes",
     filtros |-> f,
     mov |-> Mov(df),
     novas |-> Novas(Mov(df), f.part_final_min),
     aumentos |-> Aumentos(Mov(df), f.aumento_rel_min, f.part_final_min),
     reducoes |-> Reducoes(Mov(df), f.reducao_rel_min)]

(***************************************************************************)
(* The files on disk: the inputs of a session.                              *)
(***************************************************************************)
Num(v) == [t |-> "num", v |-> v]
NaoNumerico == [t |-> "txt", v |-> 0]
Rotulo(dia, mes, ano) == [ok |-> TRUE, dia |-> dia, mes |-> mes, ano |-> ano]
RotuloInvalido == [ok |-> FALSE, dia |-> 0, mes |-> 0, ano |-> 0]

\* a report date yyyy-mm-dd
Dia(ano, mes, dia) == ano * 10000 + mes * 100 + dia
D1 == Dia(2024, 10, 31)
D2 == Dia(2024, 11, 29)
D3 == Dia(2024, 12, 31)

Registro(dt, fundo, aplic, tipo, ticker, vl) ==
    [DT_COMPTC |-> dt, DENOM_SOCIAL |-> fundo, TP_APLIC |-> aplic,
     TP_ATIVO |-> tipo, CD_ATIVO |-> ticker, VL_MERC_POS_FINAL |-> vl]

\* an equity record of fund F1
Acao(dt, ticker, vl) == Registro(dt, "F1", "Acoes", "Acao ordinaria", ticker, vl)

\* one holdings file per month: the records of that month
Pasta(regs) ==
    [m \in Range(MESES_PARA_ANALISE) |->
        [exists |-> TRUE, legivel |-> TRUE,
         rows |-> Filter(regs, LAMBDA r : MesAnoDe(r.DT_COMPTC) = m)]]

\* every concatenation of one option per slot
RECURSIVE Combinacoes(_)
Combinacoes(slots) ==
    IF slots = <<>> THEN {<<>>}
    ELSE {a \o resto : a \in Head(slots), resto \in Combinacoes(Tail(slots))}

ValoresBrutos == {Num(v) : v \in 0..MaxValor}
Celulas == {Num(v) : v \in 0..MaxCelula} \cup {NaoNumerico}

MapaBase == <<[Gestora |-> "G1", Fundo |-> "F1"], [Gestora |-> "G2", Fundo |-> "F2"]>>
Mapas ==
    { MapaBase,
      \* a repeated row and a row without manager
      <<[Gestora |-> "G1", Fundo |-> "F1"], [Gestora |-> "G1", Fundo |-> "F1"],
        [Gestora |-> NULL, Fundo |-> "F2"]>>,
      \* fund F1 listed under two managers
      <<[Gestora |-> "G1", Fundo |-> "F1"], [Gestora |-> "G2", Fundo |-> "F1"]>> }

Planilha(cols, petr4, vale3) ==
    [exists |-> TRUE, cols |-> cols,
     rows |-> <<[Ticker |-> "PETR4", cells |-> petr4],
                [Ticker |-> "VALE3", cells |-> vale3]>>]

Out31 == Rotulo(31, 10, 2024)
Out15 == Rotulo(15, 10, 2024)
Nov30 == Rotulo(30, 11, 2024)

PlanilhaBase == Planilha(<<Out31, Nov30>>, <<Num(1), Num(1)>>, <<Num(2), Num(2)>>)

\* two date columns of the same month
PlanilhaMesRepetido ==
    Planilha(<<Out15, Out31, Nov30>>, <<Num(1), Num(2), Num(1)>>,
             <<Num(2), Num(2), Num(2)>>)

\* a column whose label is no date
PlanilhaRotuloInvalido ==
    Planilha(<<RotuloInvalido, Out31>>, <<Num(1), NaoNumerico>>, <<Num(1), Num(2)>>)

\* liquidity: zero volume for PETR4 in November
LiquidezBase == Planilha(<<Out31, Nov30>>, <<Num(1), Num(0)>>, <<Num(2), Num(2)>>)

Economatica(marketcap, liquidez) ==
    [exists |-> TRUE, legivel |-> TRUE, marketcap |-> marketcap, liquidez |-> liquidez]

TickersBase == [exists |-> TRUE, legivel |-> TRUE, lista |-> {"PETR4", "VALE3"}]

Disco(mapa, regs, econ) ==
    [mapa |-> [exists |-> TRUE, legivel |-> TRUE, rows |-> mapa], hist |-> Pasta(regs),
     econ |-> econ, tickers |-> TickersBase]

\* Holdings that exercise the filters: up to two records of one key, and
\* one more record that differs from an equity record of F1 in one column.
RegistrosFiltro ==
    Combinacoes(<<
        {<<>>} \cup {<<Acao(D1, "PETR4", v)>> : v \in ValoresBrutos \cup {NaoNumerico}},
        {<<>>, <<Acao(D1, "PETR4", Num(2))>>, <<Acao(D1, "PETR4", NaoNumerico)>>},
        {<<>>,
         <<Acao(D1, "VALE3", Num(1))>>,
         <<Acao(D1, "XPTO", Num(1))>>,
         <<Acao(D1, NULL, Num(1))>>,
         <<Registro(D1, "F2", "Acoes", "Acao preferencial", "PETR4", Num(1))>>,
         <<Registro(D1, "FX", "Acoes", "UNIT", "PETR4", Num(1))>>,
         <<Registro(D1, "F1", "Debentures", "Acao ordinaria", "PETR4", Num(1))>>,
         <<Registro(D1, "F1", "Acoes", "Debenture simples", "PETR4", Num(1))>>} >>)

EconFiltro ==
    {Economatica(mc, LiquidezBase) :
        mc \in {PlanilhaBase, PlanilhaMesRepetido, PlanilhaRotuloInvalido,
                Planilha(<<Out31>>, <<Num(0)>>, <<Num(1)>>)}}
    \cup {Economatica(PlanilhaBase, PlanilhaMesRepetido)}

DiscosFiltro ==
    {Disco(m, regs, e) : m \in Mapas, regs \in RegistrosFiltro, e \in EconFiltro}

\* Holdings that exercise the movement page: PETR4 of manager G1 in October
\* and in November, next to another position in November, and sometimes a
\* position in December, a month the sheets do not cover.
RegistrosMov ==
    Combinacoes(<<
        {<<>>} \cup {<<Acao(D1, "PETR4", v)>> : v \in ValoresBrutos},
        {<<>>} \cup {<<Acao(D2, "PETR4", v)>> : v \in ValoresBrutos},
        {<<>>, <<Acao(D2, "VALE3", Num(1))>>},
        {<<>>, <<Acao(D3, "PETR4", Num(1))>>} >>)

EconMov ==
    {Economatica(Planilha(<<Out31, Nov30>>, <<a, b>>, <<Num(2), Num(2)>>), LiquidezBase) :
        a \in Celulas, b \in Celulas}
    \cup {Economatica(Planilha(<<Out31, Rotulo(15, 11, 2024), Nov30>>,
                               <<a, Num(1), Num(2)>>, <<Num(2), Num(2), Num(2)>>),
                      LiquidezBase) : a \in Celulas}

DiscosMov == {Disco(MapaBase, regs, e) : regs \in RegistrosMov, e \in EconMov}

\* One required input missing or unreadable.
DiscoBase ==
    Disco(MapaBase, <<Acao(D1, "PETR4", Num(1)), Acao(D2, "PETR4", Num(2))>>,
          Economatica(PlanilhaBase, LiquidezBase))

Inexistente == [exists |-> FALSE]

\* the ways one file fails: it is not there, or it cannot be read
Falhas == {[exists |-> FALSE, legivel |-> FALSE], [exists |-> TRUE, legivel |-> FALSE]}

DiscosFalha ==
    {[DiscoBase EXCEPT !.mapa = [exists |-> f.exists, legivel |-> f.legivel,
                                 rows |-> <<>>]] : f \in Falhas}
    \cup {[DiscoBase EXCEPT !.econ = [exists |-> f.exists, legivel |-> f.legivel]] :
             f \in Falhas}
    \cup {[DiscoBase EXCEPT !.econ.marketcap = Inexistente],
          [DiscoBase EXCEPT !.econ.liquidez = Inexistente]}
    \cup {[DiscoBase EXCEPT !.tickers = [exists |-> f.exists, legivel |-> f.legivel,
                                         lista |-> {}]] : f \in Falhas}
    \cup {[DiscoBase EXCEPT !.hist[m] = [exists |-> f.exists, legivel |-> f.legivel,
                                         rows |-> <<>>]] :
             m \in Range(MESES_PARA_ANALISE), f \in Falhas}
    \* the map is missing together with a second input
    \cup {[DiscoBase EXCEPT !.mapa = [exists |-> FALSE, legivel |-> FALSE, rows |-> <<>>],
                            !.econ.liquidez = Inexistente],
          [DiscoBase EXCEPT !.mapa = [exists |-> FALSE, legivel |-> FALSE, rows |-> <<>>],
                            !.tickers = [exists |-> FALSE, legivel |-> FALSE,
                                         lista |-> {}]]}

Discos == DiscosFiltro \cup DiscosMov \cup DiscosFalha

\* the values the three number_input widgets of the movement page may hold
FiltrosMov ==
    [part_final_min : {F(0), Fin(1, 20)},
     aumento_rel_min : {50, 100},
     reducao_rel_min : {25, 100}]

(***************************************************************************)
(* State.                                                                   *)
(***************************************************************************)
VARIABLES
    disk,                 \* the input files
    pc,                   \* the statement the script run is at
    mapa_gestora_fundo,   \* loader results: [stop, none, df]
    dados_brutos,
    df_market_caps,
    df_liquidez,
    tickers_validos,
    dados_completos,
    dados_acoes,
    posicao_consolidada,
    df_final,
    mensagens,            \* st.error / st.warning / st.info calls, in order
    tela,                 \* what the selected page rendered
    cache,                \* st.cache_data: the stored value of each loader call
    execucoes,            \* how often each loader body and the consolidation ran
    reruns,               \* script reruns of the session so far
    df_final_anterior     \* df_final as the previous run left it

vars == <<disk, pc, mapa_gestora_fundo, dados_brutos, df_market_caps, df_liquidez,
          tickers_validos, dados_completos, dados_acoes, posicao_consolidada,
          df_final, mensagens, tela, cache, execucoes, reruns, df_final_anterior>>

carga == <<mapa_gestora_fundo, dados_brutos, df_market_caps, df_liquidez, tickers_validos>>
tabelas == <<dados_completos, dados_acoes, posicao_consolidada, df_final>>

sessao == <<cache, execucoes, reruns, df_final_anterior>>

SemTela == [pagina |-> "nenhuma"]

\* the calls st.cache_data keeps a value for, and what is counted
Chamadas == {"mapa", "hist", "marketcap", "liquidez"}
Contados == Chamadas \cup {"tickers", "consolidacao"}

\* a cache entry without value
Vazio == [cheio |-> FALSE, r |-> Loaded(<<>>)]

\* st.cache_data stores the value of a call that returned, None included; a
\* call that ended the run by st.stop() or an exception stores nothing
Guardar(r) == IF r.stop THEN Vazio ELSE [cheio |-> TRUE, r |-> r]

\* a call of a cached loader: the stored value on a hit, else the body runs
Chamar(nome, resultado) == IF cache[nome].cheio THEN cache[nome].r ELSE resultado

\* the entry as one shared object: an in-place change reaches the stored value
EntradaCompartilhada(entrada, mutado) ==
    IF entrada.cheio THEN [entrada EXCEPT !.r = mutado] ELSE entrada

\* st.cache_data keeps a serialised copy and hands out the value computed or
\* a fresh copy: an in-place change of the value handed out (line 173) leaves
\* the entry as it was
EntradaAposMutacao(entrada, mutado) == entrada

\* the cache and the counters after the call nome gave r
Registrar(nome, r, mutado) ==
    /\ cache' = [cache EXCEPT ![nome] =
                    EntradaAposMutacao(IF @.cheio THEN @ ELSE Guardar(r), mutado)]
    /\ execucoes' = [execucoes EXCEPT ![nome] = IF cache[nome].cheio THEN @ ELSE @ + 1]

InitCom(discos) ==
    /\ disk \in discos
    /\ pc = "mapa"
    /\ mapa_gestora_fundo = Loaded(<<>>)
    /\ dados_brutos = Loaded(<<>>)
    /\ df_market_caps = Loaded(<<>>)
    /\ df_liquidez = Loaded(<<>>)
    /\ tickers_validos = {}
    /\ dados_completos = <<>>
    /\ dados_acoes = <<>>
    /\ posicao_consolidada = <<>>
    /\ df_final = <<>>
    /\ mensagens = <<>>
    /\ tela = SemTela
    /\ cache = [c \in Chamadas |-> Vazio]
    /\ execucoes = [c \in Contados |-> 0]
    /\ reruns = 0
    /\ df_final_anterior = <<>>

Init == InitCom(Discos)

(***************************************************************************)
(* One script run, statement by statement.                                  *)
(***************************************************************************)
Dizer(m) == mensagens' = Append(mensagens, m)

\* line 165: a missing map file is reported and None is returned; the run goes on
CarregarMapeamento ==
    /\ pc = "mapa"
    /\ LET r == Chamar("mapa", carregar_mapeamento_gestora_fundo(disk.mapa))
       IN  /\ mapa_gestora_fundo' = r
           /\ IF r.none THEN Dizer("error: mapeamento") ELSE UNCHANGED mensagens
           /\ Registrar("mapa", r, r)
    /\ pc' = "hist"
    /\ UNCHANGED <<disk, dados_brutos, df_market_caps, df_liquidez, tickers_validos,
                   tabelas, tela, reruns, df_final_anterior>>

\* line 166
CarregarHistorico ==
    /\ pc = "hist"
    /\ LET r == Chamar("hist", carregar_dados_historicos(disk.hist, MESES_PARA_ANALISE))
       IN  /\ Registrar("hist", r, r)
           /\ IF r.stop
              THEN /\ Dizer(IF r.exc THEN "exception: historico" ELSE "error: historico")
                   /\ pc' = "parado"
                   /\ UNCHANGED dados_brutos
              ELSE /\ dados_brutos' = r
                   /\ pc' = "mcap"
                   /\ UNCHANGED mensagens
    /\ UNCHANGED <<disk, mapa_gestora_fundo, df_market_caps, df_liquidez,
                   tickers_validos, tabelas, tela, reruns, df_final_anterior>>

\* lines 168-173: the market-cap sheet, then the conversion from thousands
CarregarMarketCaps ==
    /\ pc = "mcap"
    /\ LET r == Chamar("marketcap",
                       carregar_e_processar_planilha_wide(disk.econ, "marketcap"))
       IN  /\ Registrar("marketcap", r, Loaded(EmMilhares(r.df)))
           /\ IF r.stop
              THEN /\ Dizer("error: marketcap")
                   /\ pc' = "parado"
                   /\ UNCHANGED df_market_caps
              ELSE /\ df_market_caps' = Loaded(EmMilhares(r.df))
                   /\ pc' = "liq"
                   /\ UNCHANGED mensagens
    /\ UNCHANGED <<disk, mapa_gestora_fundo, dados_brutos, df_liquidez,
                   tickers_validos, tabelas, tela, reruns, df_final_anterior>>

\* lines 174-178
CarregarLiquidez ==
    /\ pc = "liq"
    /\ LET r == Chamar("liquidez",
                       carregar_e_processar_planilha_wide(disk.econ, "liquidez"))
       IN  /\ Registrar("liquidez", r, r)
           /\ IF r.stop
              THEN /\ Dizer("error: liquidez")
                   /\ pc' = "parado"
                   /\ UNCHANGED df_liquidez
              ELSE /\ df_liquidez' = r
                   /\ pc' = "verificar"
                   /\ UNCHANGED mensagens
    /\ UNCHANGED <<disk, mapa_gestora_fundo, dados_brutos, df_market_caps,
                   tickers_validos, tabelas, tela, reruns, df_final_anterior>>

\* the None check without the map
VerificarCargaSemMapa ==
    /\ pc = "verificar"
    /\ IF dados_brutos.none \/ df_market_caps.none \/ df_liquidez.none
       THEN /\ Dizer("error: falha no carregamento")
            /\ pc' = "parado"
       ELSE /\ pc' = "tickers"
            /\ UNCHANGED mensagens
    /\ UNCHANGED <<disk, carga, tabelas, tela, sessao>>

\* lines 180-182
VerificarCarga ==
    /\ pc = "verificar"
    /\ IF mapa_gestora_fundo.none \/ dados_brutos.none
          \/ df_market_caps.none \/ df_liquidez.none
       THEN /\ Dizer("error: falha no carregamento")
            /\ pc' = "parado"
       ELSE /\ pc' = "tickers"
            /\ UNCHANGED mensagens
    /\ UNCHANGED <<disk, carga, tabelas, tela, sessao>>

\* lines 184-190: only FileNotFoundError is caught; a file json.load cannot
\* parse ends the run with the exception
CarregarTickers ==
    /\ pc = "tickers"
    /\ IF disk.tickers.exists /\ disk.tickers.legivel
       THEN /\ tickers_validos' = disk.tickers.lista
            /\ pc' = "merge"
            /\ UNCHANGED mensagens
       ELSE /\ Dizer(IF disk.tickers.exists THEN "exception: tickers"
                     ELSE "error: tickers")
            /\ pc' = "parado"
            /\ UNCHANGED tickers_validos
    /\ execucoes' = [execucoes EXCEPT !["tickers"] = @ + 1]
    /\ UNCHANGED <<disk, mapa_gestora_fundo, dados_brutos, df_market_caps,
                   df_liquidez, tabelas, tela, cache, reruns, df_final_anterior>>

\* lines 193-194
Atribuir ==
    /\ pc = "merge"
    /\ dados_completos' = VlNumerico(MergeGestora(dados_brutos.df, mapa_gestora_fundo.df))
    /\ pc' = "filtros"
    /\ execucoes' = [execucoes EXCEPT !["consolidacao"] = @ + 1]
    /\ UNCHANGED <<disk, carga, dados_acoes, posicao_consolidada, df_final,
                   mensagens, tela, cache, reruns, df_final_anterior>>

\* lines 196-206
Filtrar ==
    /\ pc = "filtros"
    /\ dados_acoes' = FiltrarTickers(FiltrarAcoes(dados_completos), tickers_validos)
    /\ pc' = "agrupar"
    /\ UNCHANGED <<disk, carga, dados_completos, posicao_consolidada, df_final,
                   mensagens, tela, sessao>>

\* lines 208-210
Agrupar ==
    /\ pc = "agrupar"
    /\ posicao_consolidada' = Consolidar(dados_acoes)
    /\ pc' = "referencias"
    /\ UNCHANGED <<disk, carga, dados_completos, dados_acoes, df_final,
                   mensagens, tela, sessao>>

\* lines 213-217
JuntarReferencias ==
    /\ pc = "referencias"
    /\ df_final' = MergeReferencias(posicao_consolidada, df_market_caps.df, df_liquidez.df)
    /\ pc' = "finais"
    /\ UNCHANGED <<disk, carga, dados_completos, dados_acoes, posicao_consolidada,
                   mensagens, tela, sessao>>

\* the two derived columns without the empty check
FinalizarSemParar ==
    /\ pc = "finais"
    /\ df_final' = CalculosFinais(df_final)
    /\ pc' = "pagina"
    /\ UNCHANGED <<disk, carga, dados_completos, dados_acoes, posicao_consolidada,
                   mensagens, tela, sessao>>

\* lines 219-225: the empty check, then the two derived columns
Finalizar ==
    /\ pc = "finais"
    /\ IF df_final = <<>>
       THEN /\ Dizer("warning: nenhum dado")
            /\ pc' = "parado"
            /\ UNCHANGED df_final
       ELSE /\ df_final' = CalculosFinais(df_final)
            /\ pc' = "pagina"
            /\ UNCHANGED mensagens
    /\ UNCHANGED <<disk, carga, dados_completos, dados_acoes, posicao_consolidada, tela,
                   sessao>>

\* lines 246-429
PaginaGestora ==
    /\ pc = "pagina"
    /\ \E gestora_sel \in GestorasDe(df_final) :
          tela' = PaginaGestoraTela(df_final, gestora_sel)
    /\ pc' = "fim"
    /\ UNCHANGED <<disk, carga, tabelas, mensagens, sessao>>

\* lines 440-520
PaginaAtivo ==
    /\ pc = "pagina"
    /\ \E ativo_sel \in AtivosDe(df_final) :
          IF DfAtivo(df_final, ativo_sel) = <<>>
          THEN /\ Dizer("warning: ativo sem dados")
               /\ pc' = "parado"
               /\ UNCHANGED tela
          ELSE /\ tela' = PaginaAtivoTela(df_final, ativo_sel)
               /\ pc' = "fim"
               /\ UNCHANGED mensagens
    /\ UNCHANGED <<disk, carga, tabelas, sessao>>

\* lines 527-656
PaginaMovimentacoes ==
    /\ pc = "pagina"
    /\ IF Cardinality(DatasDe(df_final)) < 2
       THEN /\ Dizer("info: dois meses")
            /\ pc' = "parado"
            /\ UNCHANGED tela
       ELSE /\ \E f \in FiltrosMov : tela' = PaginaMovimentacoesTela(df_final, f)
            /\ pc' = "fim"
            /\ UNCHANGED mensagens
    /\ UNCHANGED <<disk, carga, tabelas, sessao>>

\* lines 662-718: the ratio chart reads nothing of the consolidated table
PaginaRazao ==
    /\ pc = "pagina"
    /\ tela' = [pagina |-> "Razao tickers"]
    /\ pc' = "fim"
    /\ UNCHANGED <<disk, carga, tabelas, mensagens, sessao>>

Next ==
    \/ CarregarMapeamento
    \/ CarregarHistorico
    \/ CarregarMarketCaps
    \/ CarregarLiquidez
    \/ VerificarCarga
    \/ CarregarTickers
    \/ Atribuir
    \/ Filtrar
    \/ Agrupar
    \/ JuntarReferencias
    \/ Finalizar
    \/ PaginaGestora
    \/ PaginaAtivo
    \/ PaginaMovimentacoes
    \/ PaginaRazao

Spec == Init /\ [][Next]_vars

(***************************************************************************)
(* A session: Streamlit runs the script again, from the top, at every       *)
(* interaction.  The names of the script start unbound again; the values    *)
(* st.cache_data stored outlive the run.                                    *)
(***************************************************************************)
Rerun ==
    /\ pc \in {"fim", "parado"}
    /\ reruns < MaxReruns
    /\ reruns' = reruns + 1
    /\ df_final_anterior' = df_final
    /\ pc' = "mapa"
    /\ mapa_gestora_fundo' = Loaded(<<>>)
    /\ dados_brutos' = Loaded(<<>>)
    /\ df_market_caps' = Loaded(<<>>)
    /\ df_liquidez' = Loaded(<<>>)
    /\ tickers_validos' = {}
    /\ dados_completos' = <<>>
    /\ dados_acoes' = <<>>
    /\ posicao_consolidada' = <<>>
    /\ df_final' = <<>>
    /\ mensagens' = <<>>
    /\ tela' = SemTela
    /\ UNCHANGED <<disk, cache, execucoes>>

\* the inputs of the sessions: complete ones, with and without rows left
\* after the filters, and every failing one
DiscosSessao ==
    DiscosFalha
    \cup {DiscoBase,
          Disco(MapaBase, <<Acao(D1, "XPTO", Num(1))>>, Economatica(PlanilhaBase, LiquidezBase)),
          Disco(MapaBase, <<Acao(D1, "PETR4", Num(1))>>,
                Economatica(PlanilhaMesRepetido, LiquidezBase))}
    \cup {Disco(MapaBase, <<Acao(D1, "PETR4", Num(1)), Acao(D2, "PETR4", v)>>,
                Economatica(PlanilhaBase, LiquidezBase)) : v \in ValoresBrutos}

InitSessao == InitCom(DiscosSessao)

NextSessao == Next \/ Rerun

SpecSessao == InitSessao /\ [][NextSessao]_vars

(***************************************************************************)
(* Properties.                                                              *)
(***************************************************************************)
\* df_final carries its two derived columns
Calculado == df_final # <<>> /\ pc # "finais"

\* posicao_consolidada has been built
Agrupado == pc \notin {"mapa", "hist", "mcap", "liq", "verificar", "tickers",
                       "merge", "filtros", "agrupar"}
            /\ tickers_validos # {}

Linhas(df) == 1..Len(df)

\* the plain sum of a sequence of floats
RECURSIVE FSum(_)
FSum(xs) == IF xs = <<>> THEN F(0) ELSE FAdd(Head(xs), FSum(Tail(xs)))

\* the sum of the second components of a set of <<tag, integer>> pairs
RECURSIVE SomaInteiros(_)
SomaInteiros(S) ==
    IF S = {} THEN 0
    ELSE LET x == CHOOSE y \in S : TRUE
         IN  x[2] + SomaInteiros(S \ {x})

\* the market-cap series has a value for (ticker, month)
TemMarketCap(ticker, mesano) ==
    \E i \in Linhas(df_market_caps.df) :
        /\ df_market_caps.df[i].Ticker = ticker
        /\ df_market_caps.df[i].MesAno = mesano

\* C1: in every row of df_final the ownership percentage Perc_Cia is null
\* exactly when the market-cap series has no value for the row's ticker and
\* the month of its report date.
C1_PercCiaNullIffNoMarketCap ==
    Calculado =>
        \A i \in Linhas(df_final) :
            IsNaN(df_final[i].Perc_Cia)
                <=> ~TemMarketCap(df_final[i].Ativo, MesAnoDe(df_final[i].DT_COMPTC))

\* the rows of one manager at one report date
LinhasDe(gestora, dt) ==
    Filter(df_final, LAMBDA r : r.Gestora = gestora /\ r.DT_COMPTC = dt)

\* C2: for every (manager, report date) of df_final whose manager total is
\* greater than zero, the portfolio weights (position value / manager total
\* x 100) of the manager's rows at that date sum to 100.
C2_PesosSomamCem ==
    Calculado =>
        \A i \in Linhas(df_final) :
            FGt(df_final[i].PL_Total_Gestora_Mes, F(0)) =>
                FSum(MapSeq(LinhasDe(df_final[i].Gestora, df_final[i].DT_COMPTC),
                            LAMBDA r : PercPLEvo(r.Valor_Consolidado_R,
                                                 r.PL_Total_Gestora_Mes))) = F(100)

\* a manager holds two positions of non-zero weight at one date
C2_Witness ==
    /\ Calculado
    /\ \E i, j \in Linhas(df_final) :
          /\ df_final[i].Gestora = df_final[j].Gestora
          /\ df_final[i].DT_COMPTC = df_final[j].DT_COMPTC
          /\ df_final[i].Ativo # df_final[j].Ativo
          /\ FGt(df_final[i].Valor_Consolidado_R, F(0))
          /\ FGt(df_final[j].Valor_Consolidado_R, F(0))

\* the (holding, map row) pairs that survive the attribution join and the
\* filters and carry the key (dt, gestora, ticker)
Sobreviventes(dt, gestora, ticker) ==
    {<<i, j>> \in Linhas(dados_brutos.df) \X Linhas(mapa_gestora_fundo.df) :
        LET h == dados_brutos.df[i]
            m == mapa_gestora_fundo.df[j]
        IN  /\ h.DENOM_SOCIAL = m.Fundo
            /\ m.Gestora = gestora
            /\ h.DT_COMPTC = dt
            /\ h.CD_ATIVO = ticker
            /\ h.TP_APLIC \in tipos_aplic_interesse_acoes
            /\ h.TP_ATIVO \in tipos_ativo_acao
            /\ h.CD_ATIVO \in tickers_validos}

\* the market value a record adds: nothing when it is not a number
ValorInteiro(i) ==
    LET c == dados_brutos.df[i].VL_MERC_POS_FINAL
    IN  IF c.t = "num" THEN c.v ELSE 0

\* C3: the aggregated value of each (report date, manager, ticker) group is
\* the sum of the market values of the holding records that survive the
\* attribution join and the filters and share the key; a value that is not
\* numeric adds nothing.
C3_ValorEhSoma ==
    Agrupado =>
        \A k \in Linhas(posicao_consolidada) :
            LET p == posicao_consolidada[k]
            IN  p.Valor_Consolidado_R =
                    F(SomaInteiros({<<ij, ValorInteiro(ij[1])>> :
                          ij \in Sobreviventes(p.DT_COMPTC, p.Gestora, p.CD_ATIVO)}))

\* two records of one key with values 1 and 2 give one row with value 3
C3_Witness ==
    /\ Agrupado
    /\ \E k \in Linhas(posicao_consolidada) :
          LET p == posicao_consolidada[k]
              S == Sobreviventes(p.DT_COMPTC, p.Gestora, p.CD_ATIVO)
          IN  /\ p.Valor_Consolidado_R = F(3)
              /\ {ValorInteiro(ij[1]) : ij \in S} = {1, 2}
              /\ Cardinality(S) = 2

ChaveFinal(r) == <<r.DT_COMPTC, r.Gestora, r.Ativo>>

\* C4: df_final has exactly one row per (report date, manager, ticker).
C4_UmaLinhaPorChave ==
    Calculado =>
        \A i, j \in Linhas(df_final) :
            ChaveFinal(df_final[i]) = ChaveFinal(df_final[j]) => i = j

\* dados_acoes has been built
Filtrado == Agrupado \/ (pc = "agrupar" /\ tickers_validos # {})

PassaFiltros(r) ==
    /\ r.TP_APLIC \in tipos_aplic_interesse_acoes
    /\ r.TP_ATIVO \in tipos_ativo_acao
    /\ r.CD_ATIVO # NULL
    /\ r.CD_ATIVO \in tickers_validos

\* C5: every row of the consolidated table is built only from holding
\* records whose TP_APLIC and TP_ATIVO are in the allow-lists and whose
\* ticker is non-null and in the valid-ticker set; the ticker of a holding
\* outside the valid-ticker set appears in no row.
C5_SoRegistrosFiltrados ==
    /\ Filtrado => \A i \in Linhas(dados_acoes) : PassaFiltros(dados_acoes[i])
    /\ Agrupado =>
          /\ \A k \in Linhas(posicao_consolidada) :
                \E i \in Linhas(dados_acoes) :
                    ChaveDe(dados_acoes[i]) = ChaveDe(posicao_consolidada[k])
          /\ \A k \in Linhas(df_final) :
                /\ df_final[k].Ativo \in tickers_validos
                /\ \E i \in Linhas(dados_acoes) :
                      ChaveDe(dados_acoes[i]) = ChaveFinal(df_final[k])
          /\ \A i \in Linhas(dados_brutos.df) :
                dados_brutos.df[i].CD_ATIVO \notin tickers_validos =>
                    \A k \in Linhas(df_final) :
                        df_final[k].Ativo # dados_brutos.df[i].CD_ATIVO

\* a record of a mapped fund passes both type filters with a ticker outside
\* the valid-ticker set, and the consolidated table has rows
C5_Witness ==
    /\ Calculado
    /\ \E i \in Linhas(dados_completos) :
          /\ TipoDeAcao(dados_completos[i])
          /\ dados_completos[i].CD_ATIVO = "XPTO"

NaMov == tela.pagina = "Movimentacoes relevantes"

ParesDe(t) == {<<t[i].Gestora, t[i].Ativo>> : i \in Linhas(t)}

\* C6: no (manager, ticker) pair appears in more than one of the result sets
\* New, Increased, Decreased.
C6_ConjuntosDisjuntos ==
    NaMov =>
        /\ ParesDe(tela.novas) \cap ParesDe(tela.aumentos) = {}
        /\ ParesDe(tela.novas) \cap ParesDe(tela.reducoes) = {}
        /\ ParesDe(tela.aumentos) \cap ParesDe(tela.reducoes) = {}

DataIni == MinDe(DatasDe(df_final))
DataFim == MaxDe(DatasDe(df_final))

\* the ownership percentages the detector reads for a pair at a date: the
\* Perc_Cia of its rows, zero for a null Perc_Cia and for a pair without row
PercNaData(par, dt) ==
    LET S == {i \in Linhas(df_final) :
                 /\ df_final[i].DT_COMPTC = dt
                 /\ df_final[i].Gestora = par[1]
                 /\ df_final[i].Ativo = par[2]}
    IN  IF S = {} THEN {F(0)}
        ELSE {IF IsNaN(df_final[i].Perc_Cia) THEN F(0) ELSE df_final[i].Perc_Cia : i \in S}

ParesObservados ==
    {<<df_final[i].Gestora, df_final[i].Ativo>> :
        i \in {j \in Linhas(df_final) : df_final[j].DT_COMPTC \in {DataIni, DataFim}}}

\* <<manager, ticker, start ownership, end ownership>> of every observed pair
Candidatos ==
    UNION {{<<par[1], par[2], i, f>> : i \in PercNaData(par, DataIni),
                                       f \in PercNaData(par, DataFim)} :
           par \in ParesObservados}

Reportados(t) ==
    {<<t[i].Gestora, t[i].Ativo, t[i].Perc_Cia_ini, t[i].Perc_Cia_fim>> : i \in Linhas(t)}

AumentoRelativo(c) == FMul(FDiv(FSub(c[4], c[3]), c[3]), F(100))

\* C8: a pair is reported as Increased exactly when start ownership > 0, end
\* ownership > start ownership, the relative increase is at least the
\* minimum-increase threshold and end ownership is strictly greater than the
\* minimum-final threshold; the reported relative change is that relative
\* increase, shown rounded to a whole percentage.
C8_AumentosExatos ==
    NaMov =>
        /\ Reportados(tela.aumentos) =
              {c \in Candidatos :
                  /\ FGt(c[3], F(0))
                  /\ FGt(c[4], c[3])
                  /\ FGe(AumentoRelativo(c), F(tela.filtros.aumento_rel_min))
                  /\ FGt(c[4], tela.filtros.part_final_min)}
        /\ \A i \in Linhas(tela.aumentos) :
              LET r == tela.aumentos[i]
                  rel == AumentoRelativo(<<r.Gestora, r.Ativo, r.Perc_Cia_ini, r.Perc_Cia_fim>>)
              IN  /\ r.Var_Rel = rel
                  /\ IsFin(rel) => r.VarRel = [txt |-> "num", val |-> Arredondar(rel, 0)]

\* an increase whose relative size equals the threshold is reported
C8_Witness ==
    /\ NaMov
    /\ \E i \in Linhas(tela.aumentos) :
          /\ tela.aumentos[i].Var_Rel = F(tela.filtros.aumento_rel_min)
          /\ tela.aumentos[i].VarRel = [txt |-> "num", val |-> F(50)]

\* ((start - end) / start) * 100
ReducaoRelativa(c) == FMul(FDiv(FSub(c[3], c[4]), c[3]), F(100))

\* a pair is reported as Decreased exactly when start ownership > 0, end
\* ownership < start ownership and the relative decrease is at least the
\* minimum-decrease threshold
ReducoesExatas ==
    NaMov =>
        Reportados(tela.reducoes) =
            {c \in Candidatos :
                /\ FGt(c[3], F(0))
                /\ FLt(c[4], c[3])
                /\ FGe(ReducaoRelativa(c), F(tela.filtros.reducao_rel_min))}

\* a full exit is reported with relative change 100% and "Zerou"
SaidaTotalReportada ==
    NaMov =>
        \A c \in Candidatos :
            (FGt(c[3], F(0)) /\ c[4] = F(0)) =>
                \E i \in Linhas(tela.reducoes) :
                    LET r == tela.reducoes[i]
                    IN  /\ <<r.Gestora, r.Ativo, r.Perc_Cia_ini, r.Perc_Cia_fim>> = c
                        /\ r.Var_Rel = F(100)
                        /\ r.PercPLFinal = Texto("Zerou")

\* C9: a pair is reported as Decreased exactly when start ownership > 0, end
\* ownership < start ownership and the relative decrease is at least the
\* minimum-decrease threshold, without minimum-final gate; a full exit always
\* qualifies, with relative change 100% and its end-date portfolio weight
\* shown as "Zerou".
C9_ReducoesESaidaTotal == ReducoesExatas /\ SaidaTotalReportada

TextoNaoFinito(c) == c.txt \in {"inf", "nan"}

\* C10: no metric that is compared with a threshold or shown is infinite or
\* NaN.
C10_NadaInfinitoOuNaN ==
    /\ tela.pagina = "Analise por gestora" =>
          /\ \A i \in Linhas(tela.tabela) :
                \A c \in {tela.tabela[i].PercPL, tela.tabela[i].PercCia,
                          tela.tabela[i].Dias20, tela.tabela[i].Dias30} :
                    ~TextoNaoFinito(c)
          /\ \A i \in Linhas(tela.df_pl) : ~TextoNaoFinito(tela.df_pl[i].texto)
          /\ \A i \in Linhas(tela.df_cia) : ~TextoNaoFinito(tela.df_cia[i].texto)
    /\ tela.pagina = "Analise por ativo" =>
          \A i \in Linhas(tela.df_display) :
              \A c \in {tela.df_display[i].PercCia, tela.df_display[i].Dias20,
                        tela.df_display[i].Dias30} :
                  ~TextoNaoFinito(c)
    /\ NaMov =>
          /\ \A i \in Linhas(tela.mov) :
                IsFin(tela.mov[i].Perc_Cia_ini) /\ IsFin(tela.mov[i].Perc_Cia_fim)
          /\ \A i \in Linhas(tela.novas) :
                \A c \in {tela.novas[i].PartFinal, tela.novas[i].PercPLFinal} :
                    ~TextoNaoFinito(c)
          /\ \A i \in Linhas(tela.aumentos) :
                \A c \in {tela.aumentos[i].PartIni, tela.aumentos[i].PartFin,
                          tela.aumentos[i].VarRel, tela.aumentos[i].PercPLFinal} :
                    ~TextoNaoFinito(c)
          /\ \A i \in Linhas(tela.reducoes) :
                \A c \in {tela.reducoes[i].PartIni, tela.reducoes[i].PartFin,
                          tela.reducoes[i].VarRel, tela.reducoes[i].PercPLFinal} :
                    ~TextoNaoFinito(c)

(***************************************************************************)
(* Missing and unreadable inputs.                                           *)
(***************************************************************************)
\* a file that is not there or cannot be read
Ruim(arq) == ~arq.exists \/ ~arq.legivel

MapaRuim == Ruim(disk.mapa)
HistRuim == \E m \in Range(MESES_PARA_ANALISE) : Ruim(disk.hist[m])
PlanilhaRuim(nome) == Ruim(disk.econ) \/ ~disk.econ[nome].exists
TickersRuim == Ruim(disk.tickers)

EntradaRuim ==
    MapaRuim \/ HistRuim \/ PlanilhaRuim("marketcap") \/ PlanilhaRuim("liquidez")
    \/ TickersRuim

\* the run is at the load step of a failing input other than the map
FalhaNoPassoSemMapa ==
    \/ pc = "hist" /\ HistRuim
    \/ pc = "mcap" /\ PlanilhaRuim("marketcap")
    \/ pc = "liq" /\ PlanilhaRuim("liquidez")
    \/ pc = "tickers" /\ TickersRuim

\* the run is at the load step of a failing input
FalhaNoPasso == (pc = "mapa" /\ MapaRuim) \/ FalhaNoPassoSemMapa

UltimaMensagem == mensagens[Len(mensagens)]

\* no consolidation step has run, no table exists and no view has rendered
SemConsolidacao ==
    /\ pc \in {"mapa", "hist", "mcap", "liq", "verificar", "tickers", "parado"}
    /\ pc = "parado" =>
          /\ mensagens # <<>>
          /\ UltimaMensagem \notin {"warning: nenhum dado", "warning: ativo sem dados",
                                    "info: dois meses"}
    /\ dados_completos = <<>> /\ dados_acoes = <<>>
    /\ posicao_consolidada = <<>> /\ df_final = <<>>
    /\ tela = SemTela

\* C11 (as stated): when a required input is missing or unreadable the run
\* halts at the load step of that input, so that no later load step and no
\* consolidation step runs, and no consolidated table is built or shown.
C11_ParaNoPassoDeCarga ==
    /\ [](EntradaRuim => SemConsolidacao)
    /\ [][FalhaNoPasso => pc' = "parado"]_vars

\* C11 (amended): when a required input is missing or unreadable no
\* consolidation step runs and no consolidated table is built or shown; a
\* failing holdings file, workbook, sheet or ticker file halts the run at its
\* own load step; a failing map file is reported at its load step, the run
\* goes on to the next loader and halts at the combined check of the loader
\* results at the latest.
C11_ParaAntesDeConsolidar ==
    /\ [](EntradaRuim => SemConsolidacao)
    /\ [][FalhaNoPassoSemMapa => pc' = "parado"]_vars
    /\ [][(pc = "mapa" /\ MapaRuim) =>
            /\ pc' = "hist"
            /\ mensagens' = Append(mensagens, "error: mapeamento")]_vars
    /\ [][(pc = "verificar" /\ MapaRuim) => pc' = "parado"]_vars

\* the map file is missing, the other loaders have run and the combined
\* check has halted the run
C11_Witness ==
    /\ MapaRuim
    /\ pc = "parado"
    /\ dados_brutos.df # <<>> /\ df_market_caps.df # <<>> /\ df_liquidez.df # <<>>
    /\ UltimaMensagem = "error: falha no carregamento"
    /\ SemConsolidacao

(***************************************************************************)
(* The empty result.                                                        *)
(***************************************************************************)
EhErro(m) == m \in {"error: mapeamento", "error: historico", "exception: historico",
                    "error: marketcap", "error: liquidez",
                    "error: falha no carregamento", "error: tickers",
                    "exception: tickers"}

\* the run has stopped on the empty-table warning
ParadoSemDados ==
    /\ pc = "parado"
    /\ mensagens # <<>>
    /\ UltimaMensagem = "warning: nenhum dado"

\* C12: when df_final is empty after the filters and the joins, the run
\* stops there with a warning, no error is reported, the derived columns are
\* not computed, no page renders, and no step follows.
C12_VazioParaComAviso ==
    /\ [][(pc = "finais" /\ df_final = <<>>) =>
            /\ pc' = "parado"
            /\ mensagens' = Append(mensagens, "warning: nenhum dado")
            /\ df_final' = <<>>
            /\ tela' = SemTela]_vars
    /\ [](ParadoSemDados =>
            /\ \A i \in 1..Len(mensagens) : ~EhErro(mensagens[i])
            /\ df_final = <<>>
            /\ tela = SemTela)
    /\ [][~ParadoSemDados]_vars

\* holdings were loaded, none survived the filters, and the run stopped on
\* the warning
C12_Witness ==
    /\ ParadoSemDados
    /\ dados_brutos.df # <<>>
    /\ dados_acoes = <<>>
    /\ df_final = <<>>
    /\ tela = SemTela

(***************************************************************************)
(* The reference loader.                                                    *)
(***************************************************************************)
\* the two reference tables are in place
MarketCapsCarregado == ~EntradaRuim /\ pc \notin {"mapa", "hist", "mcap"}
LiquidezCarregada == ~EntradaRuim /\ pc \notin {"mapa", "hist", "mcap", "liq"}

\* the cells of a sheet with a date label that parses and a numeric value
CelulasValidas(planilha) ==
    {ij \in (1..Len(planilha.rows)) \X (1..Len(planilha.cols)) :
        /\ planilha.cols[ij[2]].ok
        /\ planilha.rows[ij[1]].cells[ij[2]].t = "num"}

\* the long row of a valid cell; escala is the factor applied after the load
LinhaDeCelula(planilha, ij, escala) ==
    [Ticker |-> planilha.rows[ij[1]].Ticker,
     MesAno |-> MesAnoDe(ToDatetime(planilha.cols[ij[2]])),
     valor  |-> FMul(ToNumeric(planilha.rows[ij[1]].cells[ij[2]]), F(escala))]

\* every row is the row of a valid cell, with the value of that cell, and
\* every valid cell has its (ticker, month) in the table
SoCelulasValidas(ref, planilha, escala) ==
    /\ \A k \in Linhas(ref) :
          \E ij \in CelulasValidas(planilha) : ref[k] = LinhaDeCelula(planilha, ij, escala)
    /\ \A ij \in CelulasValidas(planilha) :
          \E k \in Linhas(ref) :
              /\ ref[k].Ticker = LinhaDeCelula(planilha, ij, escala).Ticker
              /\ ref[k].MesAno = LinhaDeCelula(planilha, ij, escala).MesAno
    /\ Len(ref) <= Len(planilha.rows) * Len(planilha.cols)

UmaLinhaPorTickerMes(ref) ==
    \A i, j \in Linhas(ref) :
        (ref[i].Ticker = ref[j].Ticker /\ ref[i].MesAno = ref[j].MesAno) => i = j

\* invalid cells are dropped and never zero-filled, in both reference tables
CelulasInvalidasDescartadas ==
    /\ MarketCapsCarregado =>
          SoCelulasValidas(df_market_caps.df, disk.econ.marketcap, 1000)
    /\ LiquidezCarregada =>
          SoCelulasValidas(df_liquidez.df, disk.econ.liquidez, 1)

\* C13: the long table of the reference loader has exactly one row per
\* (ticker, year-month) that had at least one valid value; a cell whose date
\* label does not parse or whose value is not numeric is dropped, never
\* zero-filled; the table has at most rows x columns rows.
C13_UmaLinhaPorTickerMesValido ==
    /\ CelulasInvalidasDescartadas
    /\ MarketCapsCarregado => UmaLinhaPorTickerMes(df_market_caps.df)
    /\ LiquidezCarregada => UmaLinhaPorTickerMes(df_liquidez.df)

(***************************************************************************)
(* The fund-manager map and the attribution join.                           *)
(***************************************************************************)
MapaCarregado == ~MapaRuim /\ pc # "mapa"
Atribuido == pc \notin {"mapa", "hist", "mcap", "liq", "verificar", "tickers", "merge"}
             /\ tickers_validos # {}

\* no entry of the loaded map has a null manager or fund
SemNulosNoMapa ==
    MapaCarregado =>
        \A i \in Linhas(mapa_gestora_fundo.df) :
            /\ mapa_gestora_fundo.df[i].Gestora # NULL
            /\ mapa_gestora_fundo.df[i].Fundo # NULL

\* exact (manager, fund) pairs appear once in the loaded map
SemParesRepetidos ==
    MapaCarregado =>
        \A i, j \in Linhas(mapa_gestora_fundo.df) :
            mapa_gestora_fundo.df[i] = mapa_gestora_fundo.df[j] => i = j

\* every fund of the loaded map has one manager
UmaGestoraPorFundo ==
    MapaCarregado =>
        \A i, j \in Linhas(mapa_gestora_fundo.df) :
            mapa_gestora_fundo.df[i].Fundo = mapa_gestora_fundo.df[j].Fundo => i = j

\* the managers the attribution join gives to a holding record
GestorasDoRegistro(h) ==
    {dados_completos[k].Gestora : k \in
        {k \in Linhas(dados_completos) :
            /\ dados_completos[k].DT_COMPTC = h.DT_COMPTC
            /\ dados_completos[k].DENOM_SOCIAL = h.DENOM_SOCIAL
            /\ dados_completos[k].TP_APLIC = h.TP_APLIC
            /\ dados_completos[k].TP_ATIVO = h.TP_ATIVO
            /\ dados_completos[k].CD_ATIVO = h.CD_ATIVO
            /\ dados_completos[k].VL_MERC_POS_FINAL = ToNumeric(h.VL_MERC_POS_FINAL)}}

FundosDoMapa == {mapa_gestora_fundo.df[i].Fundo : i \in Linhas(mapa_gestora_fundo.df)}

\* a record of an unmapped fund gets no manager, and a record of a mapped
\* fund gets the managers the map lists for the fund
AtribuicaoPeloMapa ==
    Atribuido =>
        \A i \in Linhas(dados_brutos.df) :
            GestorasDoRegistro(dados_brutos.df[i]) =
                {mapa_gestora_fundo.df[k].Gestora : k \in
                    {k \in Linhas(mapa_gestora_fundo.df) :
                        mapa_gestora_fundo.df[k].Fundo = dados_brutos.df[i].DENOM_SOCIAL}}

\* C14: after loading, every fund of the map has exactly one manager and
\* no entry has a null manager or fund; the attribution join gives each
\* holding record at most one manager, a record of an unmapped fund none,
\* and adds no rows.
C14_MapaMuitosParaUm ==
    /\ SemNulosNoMapa
    /\ UmaGestoraPorFundo
    /\ Atribuido =>
          /\ \A i \in Linhas(dados_brutos.df) :
                /\ Cardinality(GestorasDoRegistro(dados_brutos.df[i])) <= 1
                /\ dados_brutos.df[i].DENOM_SOCIAL \notin FundosDoMapa =>
                      GestorasDoRegistro(dados_brutos.df[i]) = {}
          /\ Len(dados_completos) <= Len(dados_brutos.df)

(***************************************************************************)
(* The outer join of the movement page.                                     *)
(***************************************************************************)
\* the rows df_final has for a pair at a date
LinhasDoPar(par, dt) ==
    {i \in Linhas(df_final) :
        /\ df_final[i].DT_COMPTC = dt
        /\ df_final[i].Gestora = par[1]
        /\ df_final[i].Ativo = par[2]}

\* one side of a row of mov agrees with the snapshot of its date: zeros for
\* a pair the snapshot lacks, else the values of a row of the pair, passed
\* through normaliza
LadoConfere(par, dt, perc, valor, normaliza(_)) ==
    IF LinhasDoPar(par, dt) = {}
    THEN perc = F(0) /\ valor = F(0)
    ELSE \E i \in LinhasDoPar(par, dt) :
            /\ perc = normaliza(df_final[i].Perc_Cia)
            /\ valor = normaliza(df_final[i].Valor_Consolidado_R)

JuncaoConfere(normaliza(_)) ==
    NaMov =>
        /\ ParesDe(tela.mov) = ParesObservados
        /\ \A k \in Linhas(tela.mov) :
              LET r == tela.mov[k]
              IN  /\ LadoConfere(<<r.Gestora, r.Ativo>>, DataIni, r.Perc_Cia_ini,
                                 r.Valor_Consolidado_R_ini, normaliza)
                  /\ LadoConfere(<<r.Gestora, r.Ativo>>, DataFim, r.Perc_Cia_fim,
                                 r.Valor_Consolidado_R_fim, normaliza)

Identidade(x) == x

\* what the code does: a null value of a pair that is present becomes zero too
JuncaoComFillNa == JuncaoConfere(FillNa0)

\* C15: every pair present at the start date or at the end date is in the
\* joined set; ownership percentage and position value are zero only on the
\* side where the pair is absent from the snapshot, and a side where the pair
\* is present keeps the values it has in df_final.
C15_ZeroSoNoLadoAusente == JuncaoConfere(Identidade)

(***************************************************************************)
(* Reruns of one session.                                                   *)
(***************************************************************************)
\* a loader call whose value is stored keeps that value, and its body does
\* not run again
CacheEstavel ==
    [][\A c \in Chamadas :
          cache[c].cheio => (cache'[c] = cache[c] /\ execucoes'[c] = execucoes[c])]_vars

\* the body of every cached loader has run at most once
CarregadoUmaVez == \A c \in Chamadas : cache[c].cheio => execucoes[c] = 1

\* a run that reaches the consolidation steps executes them, every time
ConsolidaACadaRun ==
    pc \in {"filtros", "agrupar", "referencias", "finais", "pagina", "fim"} =>
        /\ execucoes["consolidacao"] = reruns + 1
        /\ execucoes["tickers"] = reruns + 1

\* a rerun ends with the consolidated table of the run before it
MesmaTabela ==
    (reruns > 0 /\ pc \in {"pagina", "fim", "parado"}) => df_final = df_final_anterior

====
